---------------------------- MODULE Spec2Model ----------------------------
(***************************************************************************)
(* Model of src/main.py: the discrete-time simulation of a PID-controlled  *)
(* crankshaft that the Dash callback updateGraphs runs on module-level     *)
(* lists.                                                                  *)
(*                                                                         *)
(* Numbers.  The source computes with Python floats.  The model computes   *)
(* with exact rationals <<numerator, denominator>> (denominator > 0,       *)
(* lowest terms), so every arithmetic operation of the source is carried   *)
(* out as written but without floating-point rounding.  Statements about   *)
(* equal values are therefore statements up to floating-point rounding of  *)
(* the source.                                                             *)
(*                                                                         *)
(* Lists.  A Python list is a sequence; the Python index k is the TLA+     *)
(* index k + 1 (operator At).                                              *)
(***************************************************************************)
EXTENDS Integers, Sequences, FiniteSets, TLC

(***************************************************************************)
(* Exact rational arithmetic.                                              *)
(***************************************************************************)
Abs(x) == IF x < 0 THEN -x ELSE x

RECURSIVE GCD(_, _)
GCD(a, b) == IF b = 0 THEN a ELSE GCD(b, a % b)

QNorm(n, d) ==
    LET g == GCD(Abs(n), d)
    IN  <<n \div g, d \div g>>

Q(n) == <<n, 1>>

QZero == <<0, 1>>

QNeg(a) == <<-a[1], a[2]>>

QAdd(a, b) ==
    LET g == GCD(a[2], b[2])
    IN  QNorm(a[1] * (b[2] \div g) + b[1] * (a[2] \div g), (a[2] \div g) * b[2])

QSub(a, b) == QAdd(a, QNeg(b))

QMul(a, b) ==
    LET g1 == GCD(Abs(a[1]), b[2])
        g2 == GCD(Abs(b[1]), a[2])
    IN  QNorm((a[1] \div g1) * (b[1] \div g2), (a[2] \div g2) * (b[2] \div g1))

QInv(a) == IF a[1] > 0 THEN <<a[2], a[1]>> ELSE <<-a[2], -a[1]>>

QDiv(a, b) == QMul(a, QInv(b))

QLess(a, b) == QSub(a, b)[1] < 0

\* Python's int() of a float: truncation towards zero.
IntOf(a) == IF a[1] >= 0 THEN a[1] \div a[2] ELSE -((-a[1]) \div a[2])

\* Python's two-argument min and max: the first argument unless the second
\* is strictly smaller (larger).
PyMin(a, b) == IF QLess(b, a) THEN b ELSE a

PyMax(a, b) == IF QLess(a, b) THEN b ELSE a

RECURSIVE PySum(_)
PySum(list) == IF list = <<>> THEN QZero ELSE QAdd(PySum(SubSeq(list, 1, Len(list) - 1)), list[Len(list)])

\* list[k] with Python's zero-based index k >= 0, and list[-1].
At(list, k) == list[k + 1]

Last(list) == list[Len(list)]

(***************************************************************************)
(* Module-level parameters that no code path assigns (lines 16-32).        *)
(***************************************************************************)
\* Number of samples of one run.  The source simulates 1000 s at 0.1 s per
\* sample (10000 samples); the model shortens the simulated time.
MaxSamples == 3

timeOfSample == <<1, 10>>

timeOfSimulation == QMul(Q(MaxSamples), timeOfSample)

brakingMoment == <<1, 5>>

momentOfInertia == <<6, 5>>

constantOfElectromagneticMoment == <<2, 5>>

Umax == <<24, 1>>

Umin == <<0, 1>>

\* np.pi, a double in the source, as the rational 22/7.
Pi == <<22, 7>>

(***************************************************************************)
(* The values the callback can be invoked with.  The sliders offer         *)
(* loadMoment in [1,5], referenced RPM in [1000,5000], Kp in [0.001,0.02], *)
(* Ki in [0.00001,0.00025], Kd in [0.0001,0.01]; the server does not       *)
(* enforce the ranges, so a request may carry any numbers.                 *)
(***************************************************************************)
Input(load, rpm, kp, ki, kd) ==
    [newLoadMoment |-> load, newReferencedRPM |-> rpm,
     newKp |-> kp, newKi |-> ki, newKd |-> kd]

\* The sliders' initial values (lines 161-186).
SliderDefaults == Input(Q(1), Q(3000), <<7, 1000>>, <<13, 100000>>, <<3, 2000>>)

\* The upper ends of the gain sliders: the regulator asks for more than Umax.
HighGains == Input(Q(5), Q(3000), <<1, 50>>, <<1, 5000>>, <<1, 100>>)

\* The same gains at the lowest target: the regulator stays inside the range.
HighGainsLowTarget == Input(Q(5), Q(1000), <<1, 50>>, <<1, 5000>>, <<1, 100>>)

\* All gains zero (outside the sliders' ranges).
ZeroGains == Input(Q(1), Q(1000), QZero, QZero, QZero)

ZeroGainsHighLoad == Input(Q(5), Q(3000), QZero, QZero, QZero)

\* A negative target (outside the slider's range): the regulator asks for
\* less than Umin.
NegativeTarget == Input(Q(5), Q(-1000), <<1, 50>>, <<1, 5000>>, <<1, 100>>)

Inputs ==
    {SliderDefaults, HighGains, HighGainsLowTarget, ZeroGains, ZeroGainsHighLoad,
     NegativeTarget}

\* The worker threads of the development server that run the callback.
Threads == {1, 2}

(***************************************************************************)
(* State.                                                                  *)
(***************************************************************************)
VARIABLES
    \* module-level parameters that updateGraphs assigns
    loadMoment, referencedRevolutionsPerMinute, Kp, Ki, Kd,
    \* module-level lists
    timeOfSimulationList, loadMomentList, electromagneticMomentList,
    adjustmentErrors, voltagesList, revolutionsList, brakingMomentList,
    previousrevolutionsList, previoustimeOfSimulationList,
    \* whether previousrevolutionsList / previoustimeOfSimulationList name the
    \* same list object as revolutionsList / timeOfSimulationList
    sameObject,
    \* per thread: position in updateGraphs, its arguments, the loop variable,
    \* the locals of the last calculateVoltageOfRegulator call, the figures
    pc, args, i, regulator, momentsFigure, revolutionsFigure,
    \* history: running sum of the errors appended since the last
    \* re-initialisation (the accumulator of an incremental integral)
    errorAccumulator,
    \* history: the time and speed series of the invocation that returned last
    lastReturned,
    \* history: the arguments and series of some earlier returned invocation
    remembered

globals ==
    <<loadMoment, referencedRevolutionsPerMinute, Kp, Ki, Kd>>

lists ==
    <<timeOfSimulationList, loadMomentList, electromagneticMomentList,
      adjustmentErrors, voltagesList, revolutionsList, brakingMomentList>>

previous ==
    <<previousrevolutionsList, previoustimeOfSimulationList, sameObject>>

locals ==
    <<pc, args, i, regulator, momentsFigure, revolutionsFigure>>

history ==
    <<errorAccumulator, lastReturned, remembered>>

vars == <<globals, lists, previous, locals, history>>

NoArgs == Input(QZero, QZero, QZero, QZero, QZero)

NoRegulator == [proportional |-> QZero, integral |-> QZero, derivative |-> QZero, voltage |-> QZero]

NoMoments == [x |-> <<>>, load |-> <<>>, electromagnetic |-> <<>>, braking |-> <<>>]

NoRevolutions == [x |-> <<>>, y |-> <<>>, previousX |-> <<>>, previousY |-> <<>>, hline |-> QZero]

NoRun == [ran |-> FALSE, args |-> NoArgs, time |-> <<>>, errors |-> <<>>, voltages |-> <<>>,
          moments |-> <<>>, revolutions |-> <<>>]

(***************************************************************************)
(* The pure functions of lines 48-151.                                     *)
(***************************************************************************)
\* Variant: one iteration more, the count calculateNumberOfIterations gives.
iterationCountPlusOne == IntOf(QDiv(timeOfSimulation, timeOfSample)) + 1

\* range(int(timeOfSimulation / timeOfSample)) of line 233.
iterationCount == IntOf(QDiv(timeOfSimulation, timeOfSample))

calculateAdjustmentError(referenced, current) == QSub(referenced, current)

ProportionalTerm(errorList, iteration) == QMul(Kp, At(errorList, iteration))

\* Variant: the seed error is left out of the sum.
IntegralTermWithoutSeed(errorList, iteration) ==
    QMul(QMul(Ki, PySum(Tail(errorList))), timeOfSample)

IntegralTerm(errorList, iteration) == QMul(QMul(Ki, PySum(errorList)), timeOfSample)

\* Variant: the difference quotient is not multiplied by Kd.
DerivativeTermUnscaled(errorList, iteration) ==
    IF iteration > 0
    THEN QDiv(QSub(At(errorList, iteration), At(errorList, iteration - 1)), timeOfSample)
    ELSE QZero

DerivativeTerm(errorList, iteration) ==
    QMul(Kd, IF iteration > 0
             THEN QDiv(QSub(At(errorList, iteration), At(errorList, iteration - 1)), timeOfSample)
             ELSE QZero)

calculateVoltageOfRegulator(errorList, iteration) ==
    LET proportional == ProportionalTerm(errorList, iteration)
        integral == IntegralTerm(errorList, iteration)
        derivative == DerivativeTerm(errorList, iteration)
    IN  [proportional |-> proportional, integral |-> integral, derivative |-> derivative,
         voltage |-> QAdd(QAdd(proportional, integral), derivative)]

calculateElectromagneticMoment(constant, currentVoltage) == QMul(constant, currentVoltage)

\* Variant: only the lower limit is applied.
calculateNormalizedVoltageNoUpper(voltgeOfRegulator) == PyMax(Umin, voltgeOfRegulator)

calculateNormalizedVoltage(voltgeOfRegulator) == PyMax(Umin, PyMin(Umax, voltgeOfRegulator))

convertToAngularVelocity(valueToBeConverted) ==
    QMul(valueToBeConverted, QDiv(QMul(Q(2), Pi), Q(60)))

convertToRevolutionsPerMinute(valueToBeConverted) ==
    QMul(valueToBeConverted, QDiv(Q(60), QMul(Q(2), Pi)))

calculateRevolutions(latestRevolution, latestElectromagneticMoment) ==
    LET omega == convertToAngularVelocity(latestRevolution)
        acceleration == QDiv(QSub(QSub(latestElectromagneticMoment, loadMoment), brakingMoment),
                             momentOfInertia)
        newOmega == QAdd(omega, QMul(timeOfSample, acceleration))
    IN  convertToRevolutionsPerMinute(newOmega)

(***************************************************************************)
(* Initial state: the module has been imported (lines 13-43), no callback  *)
(* has run.  brakingMomentList is not bound before the first callback.     *)
(***************************************************************************)
Init ==
    /\ referencedRevolutionsPerMinute = Q(3000)
    /\ loadMoment = Q(5)
    /\ Kp = <<7, 1000>>
    /\ Ki = <<3, 20000>>
    /\ Kd = <<3, 2000>>
    /\ timeOfSimulationList = <<QZero>>
    /\ loadMomentList = <<QZero>>
    /\ electromagneticMomentList = <<QZero>>
    /\ adjustmentErrors = <<Q(3000)>>
    /\ voltagesList = <<QZero>>
    /\ revolutionsList = <<QZero>>
    /\ brakingMomentList = <<>>
    /\ previousrevolutionsList = <<QZero>>
    /\ previoustimeOfSimulationList = <<QZero>>
    /\ sameObject = {}
    /\ pc = [t \in Threads |-> "idle"]
    /\ args = [t \in Threads |-> NoArgs]
    /\ i = [t \in Threads |-> 0]
    /\ regulator = [t \in Threads |-> NoRegulator]
    /\ momentsFigure = [t \in Threads |-> NoMoments]
    /\ revolutionsFigure = [t \in Threads |-> NoRevolutions]
    /\ errorAccumulator = Q(3000)
    /\ lastReturned = NoRun
    /\ remembered = NoRun

(***************************************************************************)
(* updateGraphs (lines 212-319), one action per block of statements.  A    *)
(* thread is at "idle" between requests; "raised" is a request that ended  *)
(* in an uncaught IndexError.                                              *)
(***************************************************************************)
\* Lines 214-219: the arguments overwrite the module-level parameters.
AssignParameters(new) ==
    /\ loadMoment' = new.newLoadMoment
    /\ referencedRevolutionsPerMinute' = new.newReferencedRPM
    /\ Kp' = new.newKp
    /\ Ki' = new.newKi
    /\ Kd' = new.newKd

Invoke(t, new) ==
    /\ pc[t] \in {"idle", "raised"}
    /\ AssignParameters(new)
    /\ pc' = [pc EXCEPT ![t] = "reinit"]
    /\ args' = [args EXCEPT ![t] = new]
    /\ UNCHANGED <<lists, previous, i, regulator, momentsFigure, revolutionsFigure, history>>

\* Variant: the error list is not bound anew.
SeedListsKeepErrors ==
    [time |-> <<QZero>>, load |-> <<QZero>>, moments |-> <<QZero>>,
     errors |-> adjustmentErrors, voltages |-> <<QZero>>,
     revolutions |-> <<QZero>>, braking |-> <<brakingMoment>>]

\* Lines 224-230: every list name is bound to a fresh one-element list.
SeedLists ==
    [time |-> <<QZero>>, load |-> <<QZero>>, moments |-> <<QZero>>,
     errors |-> <<referencedRevolutionsPerMinute>>, voltages |-> <<QZero>>,
     revolutions |-> <<QZero>>, braking |-> <<brakingMoment>>]

ReinitializeLists(t) ==
    /\ pc[t] = "reinit"
    /\ timeOfSimulationList' = SeedLists.time
    /\ loadMomentList' = SeedLists.load
    /\ electromagneticMomentList' = SeedLists.moments
    /\ adjustmentErrors' = SeedLists.errors
    /\ voltagesList' = SeedLists.voltages
    /\ revolutionsList' = SeedLists.revolutions
    /\ brakingMomentList' = SeedLists.braking
    /\ sameObject' = {}
    /\ errorAccumulator' = SeedLists.errors[1]
    /\ pc' = [pc EXCEPT ![t] = "loop"]
    /\ i' = [i EXCEPT ![t] = 0]
    /\ UNCHANGED <<globals, previousrevolutionsList, previoustimeOfSimulationList,
                   args, regulator, momentsFigure, revolutionsFigure,
                   lastReturned, remembered>>

\* Variant: the voltage appended in the same iteration.
VoltageJustAppended(voltages, n) == Last(voltages)

\* Line 242: the voltage handed to calculateElectromagneticMoment.
VoltageForMoment(voltages, n) == At(voltages, n)

\* Variant: the moment appended in the same iteration.
MomentJustAppended(moments, n) == Last(moments)

\* Line 247: the moment handed to calculateRevolutions.
MomentForRevolutions(moments, n) == At(moments, n)

\* Line 251: the speed handed to calculateAdjustmentError.
RevolutionsForError(revolutions, n) == At(revolutions, n)

\* Lines 234-255: the body of the loop for loop variable n, on the lists as
\* they are now.  raised: a list was indexed past its end; the lists then
\* keep what was appended before the failing statement.
LoopBody(n) ==
    LET time1 == Append(timeOfSimulationList,
                        QAdd(At(timeOfSimulationList, n), timeOfSample))
        reg == calculateVoltageOfRegulator(adjustmentErrors, n)
        voltages1 == Append(voltagesList, calculateNormalizedVoltage(reg.voltage))
        moments1 == Append(electromagneticMomentList,
                           calculateElectromagneticMoment(constantOfElectromagneticMoment,
                                                          VoltageForMoment(voltages1, n)))
        revolutions1 == Append(revolutionsList,
                               calculateRevolutions(At(revolutionsList, n),
                                                    MomentForRevolutions(moments1, n)))
        errors1 == Append(adjustmentErrors,
                          calculateAdjustmentError(referencedRevolutionsPerMinute,
                                                   RevolutionsForError(revolutions1, n)))
        now == [raised |-> TRUE, time |-> timeOfSimulationList, regulator |-> NoRegulator,
                voltages |-> voltagesList, moments |-> electromagneticMomentList,
                revolutions |-> revolutionsList, errors |-> adjustmentErrors,
                load |-> loadMomentList, braking |-> brakingMomentList]
    IN  CASE n >= Len(timeOfSimulationList) -> now
          [] n >= Len(adjustmentErrors) -> [now EXCEPT !.time = time1]
          [] n >= Len(voltages1) ->
                [now EXCEPT !.time = time1, !.regulator = reg, !.voltages = voltages1]
          [] n >= Len(revolutionsList) \/ n >= Len(moments1) ->
                [now EXCEPT !.time = time1, !.regulator = reg, !.voltages = voltages1,
                            !.moments = moments1]
          [] OTHER ->
                [raised |-> FALSE, time |-> time1, regulator |-> reg,
                 voltages |-> voltages1, moments |-> moments1,
                 revolutions |-> revolutions1, errors |-> errors1,
                 load |-> Append(loadMomentList, loadMoment),
                 braking |-> Append(brakingMomentList, brakingMoment)]

SimulationStep(t) ==
    /\ pc[t] = "loop"
    /\ i[t] < iterationCount
    /\ LET body == LoopBody(i[t])
       IN  /\ timeOfSimulationList' = body.time
           /\ voltagesList' = body.voltages
           /\ electromagneticMomentList' = body.moments
           /\ revolutionsList' = body.revolutions
           /\ adjustmentErrors' = body.errors
           /\ loadMomentList' = body.load
           /\ brakingMomentList' = body.braking
           /\ previoustimeOfSimulationList' =
                 IF "time" \in sameObject THEN body.time ELSE previoustimeOfSimulationList
           /\ previousrevolutionsList' =
                 IF "revolutions" \in sameObject THEN body.revolutions
                 ELSE previousrevolutionsList
           /\ errorAccumulator' =
                 IF Len(body.errors) > Len(adjustmentErrors)
                 THEN QAdd(errorAccumulator, body.errors[Len(body.errors)])
                 ELSE errorAccumulator
           /\ regulator' = [regulator EXCEPT ![t] = IF body.raised THEN @ ELSE body.regulator]
           /\ pc' = [pc EXCEPT ![t] = IF body.raised THEN "raised" ELSE "loop"]
           /\ i' = [i EXCEPT ![t] = IF body.raised THEN @ ELSE @ + 1]
    /\ UNCHANGED <<globals, sameObject, args, momentsFigure, revolutionsFigure,
                   lastReturned, remembered>>

\* Lines 258-289: the three traces of the moments figure read the lists.
DrawMoments(t) ==
    /\ pc[t] = "loop"
    /\ i[t] = iterationCount
    /\ momentsFigure' = [momentsFigure EXCEPT ![t] =
            [x |-> timeOfSimulationList, load |-> loadMomentList,
             electromagnetic |-> electromagneticMomentList, braking |-> brakingMomentList]]
    /\ pc' = [pc EXCEPT ![t] = "revolutions"]
    /\ UNCHANGED <<globals, lists, previous, args, i, regulator, revolutionsFigure, history>>

\* Lines 292-315: the speed trace, the overlay trace and the target line.
DrawRevolutions(t) ==
    /\ pc[t] = "revolutions"
    /\ revolutionsFigure' = [revolutionsFigure EXCEPT ![t] =
            [x |-> timeOfSimulationList, y |-> revolutionsList,
             previousX |-> previoustimeOfSimulationList,
             previousY |-> previousrevolutionsList,
             hline |-> referencedRevolutionsPerMinute]]
    /\ pc' = [pc EXCEPT ![t] = "remember"]
    /\ UNCHANGED <<globals, lists, previous, args, i, regulator, momentsFigure, history>>

\* Variant: the previous-run names keep the lists they had.
RememberPreviousSkipped(t) ==
    /\ pc[t] = "remember"
    /\ pc' = [pc EXCEPT ![t] = "return"]
    /\ UNCHANGED <<globals, lists, previous, args, i, regulator, momentsFigure,
                   revolutionsFigure, history>>

\* Lines 316-317: the previous-run names are bound to the current list objects.
RememberPrevious(t) ==
    /\ pc[t] = "remember"
    /\ previousrevolutionsList' = revolutionsList
    /\ previoustimeOfSimulationList' = timeOfSimulationList
    /\ sameObject' = {"revolutions", "time"}
    /\ pc' = [pc EXCEPT ![t] = "return"]
    /\ UNCHANGED <<globals, lists, args, i, regulator, momentsFigure, revolutionsFigure,
                   history>>

\* What the invocation of thread t hands back, with the error and voltage
\* lists as they are when it returns.
ThisRun(t) ==
    [ran |-> TRUE, args |-> args[t], time |-> revolutionsFigure[t].x,
     errors |-> adjustmentErrors, voltages |-> voltagesList,
     moments |-> momentsFigure[t].electromagnetic,
     revolutions |-> revolutionsFigure[t].y]

\* Line 319: the figures are returned and the frame is discarded.
Return(t) ==
    /\ pc[t] = "return"
    /\ lastReturned' = ThisRun(t)
    /\ \/ remembered' = ThisRun(t)
       \/ remembered' = remembered
    /\ pc' = [pc EXCEPT ![t] = "idle"]
    /\ args' = [args EXCEPT ![t] = NoArgs]
    /\ i' = [i EXCEPT ![t] = 0]
    /\ regulator' = [regulator EXCEPT ![t] = NoRegulator]
    /\ momentsFigure' = [momentsFigure EXCEPT ![t] = NoMoments]
    /\ revolutionsFigure' = [revolutionsFigure EXCEPT ![t] = NoRevolutions]
    /\ UNCHANGED <<globals, lists, previous, errorAccumulator>>

Step(t) ==
    \/ ReinitializeLists(t)
    \/ SimulationStep(t)
    \/ DrawMoments(t)
    \/ DrawRevolutions(t)
    \/ RememberPrevious(t)
    \/ Return(t)

\* No invocation is in progress.
Quiescent == \A t \in Threads : pc[t] \in {"idle", "raised"}

(***************************************************************************)
(* Spec: the invocations run one after another (a request arrives only     *)
(* when no other is in progress).                                          *)
(***************************************************************************)
Next ==
    \E t \in Threads :
        \/ \E new \in Inputs : Quiescent /\ Invoke(t, new)
        \/ Step(t)

Spec == Init /\ [][Next]_vars

(***************************************************************************)
(* SpecOverlap: the threaded server runs a request on its own thread as    *)
(* soon as it arrives, so two invocations can be in progress at once; the  *)
(* threads are interleaved between the blocks of statements above.         *)
(***************************************************************************)
OverlapInputs == {HighGains, ZeroGains}

\* Requests keep arriving until the first response has been sent.
NextOverlap ==
    \E t \in Threads :
        \/ \E new \in OverlapInputs : ~lastReturned.ran /\ Invoke(t, new)
        \/ Step(t)

SpecOverlap == Init /\ [][NextOverlap]_vars

(***************************************************************************)
(* Properties.                                                             *)
(***************************************************************************)
QLeq(a, b) == ~QLess(b, a)

\* Thread t is past the re-initialisation of its invocation.
Running(t) == pc[t] \in {"loop", "revolutions", "remember", "return"}

\* Thread t has left the loop normally.
Completed(t) == pc[t] \in {"revolutions", "remember", "return"}

\* C1 (saturation bound): every entry of the voltage series, the seed 0
\* included, lies in [Umin, Umax], whatever the regulator asked for.
C1_SaturationBound ==
    \A k \in 1..Len(voltagesList) :
        QLeq(Umin, voltagesList[k]) /\ QLeq(voltagesList[k], Umax)

\* The regulator asked for more than Umax and Umax was appended.
C1_Witness ==
    \E t \in Threads :
        /\ pc[t] = "loop" /\ i[t] >= 1
        /\ QLess(Umax, regulator[t].voltage)
        /\ Last(voltagesList) = Umax

\* The regulator asked for less than Umin and Umin was appended.
C1_WitnessLow ==
    \E t \in Threads :
        /\ pc[t] = "loop" /\ i[t] >= 1
        /\ QLess(regulator[t].voltage, Umin)
        /\ Last(voltagesList) = Umin

C3_Determinism ==
    \A t \in Threads :
        /\ (pc[t] = "return" /\ remembered.ran /\ remembered.args = args[t])
              => remembered = ThisRun(t)
        /\ (pc[t] = "loop" /\ i[t] = 0) =>
              /\ timeOfSimulationList = <<QZero>>
              /\ adjustmentErrors = <<args[t].newReferencedRPM>>
              /\ voltagesList = <<QZero>>
              /\ electromagneticMomentList = <<QZero>>
              /\ revolutionsList = <<QZero>>
        /\ Running(t) =>
              <<loadMoment, referencedRevolutionsPerMinute, Kp, Ki, Kd>>
                 = <<args[t].newLoadMoment, args[t].newReferencedRPM,
                     args[t].newKp, args[t].newKi, args[t].newKd>>

\* An invocation is about to return whose arguments were used by an earlier
\* invocation, and the invocation just before it had other arguments.
C3_Witness ==
    \E t \in Threads :
        /\ pc[t] = "return"
        /\ remembered.ran /\ remembered.args = args[t]
        /\ lastReturned.ran /\ lastReturned.args # args[t]
        /\ lastReturned.revolutions # revolutionsFigure[t].y

\* C4 (tracking error definition), as claimed: in the completed series every
\* error entry is the target speed minus the speed entry at the same index.
C4_ErrorAtSameIndex ==
    \A t \in Threads :
        pc[t] = "return" =>
            \A k \in 1..Len(adjustmentErrors) :
                adjustmentErrors[k]
                   = QSub(referencedRevolutionsPerMinute, revolutionsList[k])

\* What the code keeps instead of C4: the seed error is the target minus the
\* seed speed, and every later error entry is the target minus the speed
\* entry one index earlier.
ErrorLagsSpeed ==
    \A t \in Threads :
        Running(t) =>
            /\ adjustmentErrors[1] = QSub(referencedRevolutionsPerMinute, revolutionsList[1])
            /\ \A k \in 2..Len(adjustmentErrors) :
                  adjustmentErrors[k]
                     = QSub(referencedRevolutionsPerMinute, revolutionsList[k - 1])

EulerStep(revolutions, moment) ==
    QAdd(revolutions,
         QMul(QDiv(Q(30), Pi),
              QMul(timeOfSample,
                   QDiv(QSub(QSub(moment, loadMoment), brakingMoment), momentOfInertia))))

\* C6 (plant recurrence with lagged torque): the speed appended in an
\* iteration is one explicit-Euler step from the last stored speed under the
\* torque stored before that iteration's torque was appended, unclamped.
C6_PlantRecurrence ==
    \A t \in Threads :
        Running(t) =>
            \A k \in 1..(Len(revolutionsList) - 1) :
                /\ k <= Len(electromagneticMomentList)
                /\ revolutionsList[k + 1]
                      = EulerStep(revolutionsList[k], electromagneticMomentList[k])

\* A negative speed was appended after a step under a non-zero torque that
\* differs from the torque appended in the same iteration.
C6_Witness ==
    \E t \in Threads :
        /\ Running(t)
        /\ \E k \in 1..(Len(revolutionsList) - 1) :
              /\ k + 1 <= Len(electromagneticMomentList)
              /\ electromagneticMomentList[k] # QZero
              /\ electromagneticMomentList[k] # electromagneticMomentList[k + 1]
              /\ QLess(revolutionsList[k + 1], QZero)

\* C7 (zero-gain decay): with Kp = Ki = Kd = 0 every voltage and every torque
\* is 0 and consecutive speeds differ by the same amount, the RPM equivalent
\* of timeOfSample * (-loadMoment - brakingMoment) / momentOfInertia.
C7_ZeroGainDecay ==
    \A t \in Threads :
        (Running(t) /\ args[t].newKp = QZero /\ args[t].newKi = QZero
                    /\ args[t].newKd = QZero) =>
            /\ \A k \in 1..Len(voltagesList) : voltagesList[k] = QZero
            /\ \A k \in 1..Len(electromagneticMomentList) :
                  electromagneticMomentList[k] = QZero
            /\ \A k \in 1..(Len(revolutionsList) - 1) :
                  QSub(revolutionsList[k + 1], revolutionsList[k])
                     = convertToRevolutionsPerMinute(
                          QMul(timeOfSample,
                               QDiv(QSub(QNeg(args[t].newLoadMoment), brakingMoment),
                                    momentOfInertia)))

\* A zero-gain run has completed with several speed entries.
C7_Witness ==
    \E t \in Threads :
        /\ pc[t] = "return"
        /\ args[t].newKp = QZero /\ args[t].newKi = QZero /\ args[t].newKd = QZero
        /\ Len(revolutionsList) >= 3
        /\ revolutionsList[3] # revolutionsList[2]

\* C8 (previous-run overlay): the overlay trace of an invocation is the time
\* and speed series returned by the invocation before it, the seed pair for
\* the first invocation; between invocations the previous-run lists hold
\* that last run and nothing older.
C8_PreviousRunOverlay ==
    LET before == IF lastReturned.ran
                  THEN <<lastReturned.time, lastReturned.revolutions>>
                  ELSE <<(<<QZero>>), (<<QZero>>)>>
    IN  /\ \A t \in Threads :
              pc[t] \in {"remember", "return"} =>
                  <<revolutionsFigure[t].previousX, revolutionsFigure[t].previousY>> = before
        /\ Quiescent =>
              <<previoustimeOfSimulationList, previousrevolutionsList>> = before

\* A third or later invocation is about to return: its overlay differs from
\* its own speed series and from the series of an older invocation.
C8_Witness ==
    \E t \in Threads :
        /\ pc[t] = "return"
        /\ lastReturned.ran /\ remembered.ran
        /\ revolutionsFigure[t].previousY # revolutionsFigure[t].y
        /\ revolutionsFigure[t].previousY # remembered.revolutions

\* C9 (integral equivalence inside a run): the integral term that the
\* regulator computed by summing the whole error list equals Ki * timeOfSample
\* times the running accumulator as it stood at the call, that is before the
\* error of the same iteration was added; the list then held the entries
\* 0..iteration and nothing more.
C9_IntegralEquivalence ==
    \A t \in Threads :
        (pc[t] = "loop" /\ i[t] >= 1) =>
            /\ Len(adjustmentErrors) = i[t] + 1
            /\ regulator[t].integral
                  = QMul(QMul(Ki, QSub(errorAccumulator, Last(adjustmentErrors))),
                         timeOfSample)

\* The regulator has been called at a sample after the first with a non-zero
\* integral term.
C9_Witness ==
    \E t \in Threads :
        /\ pc[t] = "loop" /\ i[t] >= 3
        /\ regulator[t].integral # QZero
        /\ adjustmentErrors[3] # adjustmentErrors[2]

\* C10 (isolation of overlapping runs), as claimed: an invocation that
\* overlaps another one still ends normally and returns series of
\* iterationCount + 1 entries computed from its own arguments.
C10_OverlapIsolation ==
    \A t, u \in Threads :
        (pc[t] # "idle" /\ pc[u] # "idle" /\ args[t] # args[u]) =>
            /\ pc[t] # "raised"
            /\ pc[t] = "return" =>
                  /\ Len(momentsFigure[t].x) = iterationCount + 1
                  /\ Len(momentsFigure[t].load) = iterationCount + 1
                  /\ Len(momentsFigure[t].electromagnetic) = iterationCount + 1
                  /\ Len(revolutionsFigure[t].x) = iterationCount + 1
                  /\ Len(revolutionsFigure[t].y) = iterationCount + 1
                  /\ revolutionsFigure[t].hline = args[t].newReferencedRPM
                  /\ \A k \in 2..Len(momentsFigure[t].load) :
                        momentsFigure[t].load[k] = args[t].newLoadMoment

=============================================================================
